---- MODULE Spec2Model ----
(***************************************************************************)
(* A model of anyrl-py's feed-forward batch pipeline                       *)
(* (anyrl/models/feedforward.py) and of its two episode logs               *)
(* (anyrl/rollouts/logger.py, anyrl/envs/wrappers/logs.py).                *)
(*                                                                         *)
(* Python indices are kept 0-based as the code produces them; TLA+         *)
(* sequences are 1-based, so element i of a python list is s[i + 1].       *)
(***************************************************************************)
EXTENDS Integers, Sequences, FiniteSets, Bags, TLC

\* ------------------------------------------------------------------ bounds
\* Largest number of rollouts handed to batches().
MaxRollouts == 2
\* Largest total number of step_observations over all the rollouts.
MaxFrames == 5
\* Largest integer batch_size tried (batch_size ranges over None, 1..MaxBatch).
MaxBatch == 3
\* Largest number of scale_outputs calls made on one model.
MaxScaleCalls == 2

\* Last reading of the wall clock the model takes (time.time(), in ticks).
MaxClock == 1
\* Largest number of data rows a log file grows to.
MaxRows == 2
\* Longest episode of a LoggedEnv, and largest total_steps of a logged Rollout.
MaxEpLen == 2
\* Largest number of rollouts in one EpisodeLogger.write_rollouts call.
MaxLogRollouts == 2

\* Number of LoggedEnv processes sharing one log path with use_locking=True.
NProcs == 2

\* Python's None, and an integer argument k, as values of one kind.
None == <<>>
Some(k) == <<k>>

VARIABLES
    \* ---- FeedforwardAC.batches(rollouts, batch_size) ----
    rollouts,       \* the caller's sequence of Rollout records
    batch_size,     \* None or Some(k), k a positive integer
    bpc,            \* generator position: "start", "iter" (suspended at yield), "done"
    obses,          \* locals of batches(): the three lists the flattener returned
    rollout_idxs,
    timestep_idxs,
    remaining,      \* indices the partitioner has not emitted yet
    batch,          \* the dict yielded last (NoBatch before the first yield)
    nYielded,       \* ghost: number of batches yielded so far
    yieldedPairs,   \* ghost: bag of the (rollout_idx, timestep_idx) pairs yielded so far
    firstCover,     \* ghost: the pairs an earlier, exhausted batches() call on
                    \* these rollouts yielded (None before there is one)
    \* ---- the FeedforwardAC object and a caller of step ----
    actor_out,      \* self.actor_out: the actor head's output tensor
    critic_out,     \* self.critic_out: the critic head's output tensor
    scales,         \* ghost: the arguments of the scale_outputs calls so far
    observations,   \* the caller's list of observations, passed to step
    states,         \* the caller's states object, passed to step
    ret,            \* what the last call on the model returned
    \* ---- the log file and the wall clock ----
    fexists,        \* os.path.isfile(log_path)
    flines,         \* the file's contents, a sequence of lines (<<>>: zero bytes)
    clock,          \* the last value time.time() returned
    \* ---- one log handle at a time (EpisodeLogger or LoggedEnv, no locking) ----
    h,              \* the handle: its kind and the object's fields
    lastOp,         \* ghost: the operation performed last and how it ended
    logged,         \* ghost: the episode records written, in file order
    startedAbsent,  \* ghost: the path did not exist initially
    atOpen,         \* ghost: the data rows and their largest t when the handle opened
    ep,             \* ghost: the wrapped environment's current episode, and the
                    \* episode the last step ended
    lastCall,       \* ghost: the argument of the write_rollouts call made last
    \* ---- several LoggedEnv processes on the path, use_locking=True ----
    env,            \* per process: position in the code and the object's fields
    lockHolder,     \* the process holding flock(LOCK_EX) on the file, or 0
    episodes        \* ghost: bag of the records of the episodes completed so far

bvars == <<rollouts, batch_size, bpc, obses, rollout_idxs, timestep_idxs,
           remaining, batch, nYielded, yieldedPairs, firstCover>>

mvars == <<actor_out, critic_out, scales, observations, states, ret>>

fvars == <<fexists, flines, clock>>

hvars == <<h, lastOp, logged, startedAbsent, atOpen, ep, lastCall>>

lvars == <<env, lockHolder, episodes>>

vars == <<bvars, mvars, fvars, hvars, lvars>>

\* ----------------------------------------------------------------- helpers
Range(s) == {s[i] : i \in DOMAIN s}

Min(a, b) == IF a <= b THEN a ELSE b

RECURSIVE SumSeq(_)
SumSeq(s) == IF s = <<>> THEN 0 ELSE Head(s) + SumSeq(Tail(s))

\* The bag of the elements of a sequence.
SeqToBag(s) == [p \in Range(s) |-> Cardinality({j \in DOMAIN s : s[j] = p})]

Max(a, b) == IF a >= b THEN a ELSE b

\* max() of a non-empty sequence of numbers.
MaxOf(s) == CHOOSE m \in Range(s) : \A x \in Range(s) : x <= m

\* range(n) as a list: <<0, 1, ..., n-1>>.
PyRange(n) == [j \in 1..n |-> j - 1]

\* numpy.take(a, indices): the elements of a at the (0-based) indices, in the
\* order of indices.
np_take(a, indices) == [j \in 1..Len(indices) |-> a[indices[j] + 1]]

\* ------------------------------------------------------ external components
\* The observation of rollout number i (0-based) at timestep t (0-based).  The
\* code never inspects an observation, so every observation is a token of its
\* own: any misplaced observation is then visible.
ObsToken(i, t) == <<"obs", i, t>>

\* ObservationVectorizer.to_vecs: one vector per observation, in order.
to_vecs(obs) ==
    [j \in 1..Len(obs) |-> <<"vec", obs[j]>>]

\* anyrl.models.util.mini_batches(size_per_index, batch_size), one step of the
\* generator: the set of chunks it may emit next when the indices `rem` are
\* still to be emitted (the empty set: the generator is exhausted).  With
\* batch_size None, one chunk holding the whole index range in original order;
\* otherwise chunks of batch_size indices (the last may be shorter), taken in
\* consecutive or shuffled order.  The chunks partition range(N), so there is
\* no chunk when nothing is left.
mini_batches(size_per_index, rem, bsize) ==
    IF rem = {} THEN {}
    ELSE IF bsize = None THEN {PyRange(Len(size_per_index))}
    ELSE LET n == Min(bsize[1], Cardinality(rem))
         IN  {s \in [1..n -> rem] : \A a, b \in 1..n : a # b => s[a] # s[b]}

\* ------------------------------------------------- _frames_from_rollouts
\* FramesOfRollout recording 1-based timestep indices.
FramesOfRollout_OneBased(rollout_idx, rollout) ==
    [t \in 1..Len(rollout.step_observations) |->
        [obs |-> rollout.step_observations[t],
         rollout_idx |-> rollout_idx,
         timestep_idx |-> t]]

\* The inner loop over one rollout: one frame per entry of step_observations.
FramesOfRollout(rollout_idx, rollout) ==
    [t \in 1..Len(rollout.step_observations) |->
        [obs |-> rollout.step_observations[t],
         rollout_idx |-> rollout_idx,
         timestep_idx |-> t - 1]]

\* The outer loop, from rollout number i (1-based) on.
RECURSIVE FramesFrom(_, _)
FramesFrom(rs, i) ==
    IF i > Len(rs) THEN <<>>
    ELSE FramesOfRollout(i - 1, rs[i]) \o FramesFrom(rs, i + 1)

\* _frames_from_rollouts(rollouts): (all_obs, rollout_indices, timestep_indices).
frames_from_rollouts(rs) ==
    LET frames == FramesFrom(rs, 1)
    IN  [all_obs |-> [j \in 1..Len(frames) |-> frames[j].obs],
         rollout_indices |-> [j \in 1..Len(frames) |-> frames[j].rollout_idx],
         timestep_indices |-> [j \in 1..Len(frames) |-> frames[j].timestep_idx]]

\* ---------------------------------------------------- FeedforwardAC.batches
\* The first argument of the mini_batches call: [1]*len(obses).
SizePerIndex(all_obs) == [j \in 1..Len(all_obs) |-> 1]

\* NextMiniIndices that, for batch_size None, takes everything as one batch
\* itself instead of asking the partitioner.
NextMiniIndices_NoneIsAll(all_obs, rem, bsize) ==
    IF bsize = None THEN {PyRange(Len(all_obs))}
    ELSE mini_batches(SizePerIndex(all_obs), rem, bsize)

\* The chunks the loop header `for mini_indices in mini_batches(...)` may get
\* next.
NextMiniIndices(all_obs, rem, bsize) ==
    mini_batches(SizePerIndex(all_obs), rem, bsize)

\* BatchOf feeding the first len(mini_indices) observations instead of the
\* observations at mini_indices.
BatchOf_FeedPrefix(all_obs, r_idxs, t_idxs, mini_indices) ==
    LET sub_obses == SubSeq(all_obs, 1, Len(mini_indices))
    IN  [rollout_idxs |-> np_take(r_idxs, mini_indices),
         timestep_idxs |-> np_take(t_idxs, mini_indices),
         feed_dict |-> to_vecs(sub_obses)]

\* The dict yielded for one mini_indices.
BatchOf(all_obs, r_idxs, t_idxs, mini_indices) ==
    LET sub_obses == [j \in 1..Len(mini_indices) |-> all_obs[mini_indices[j] + 1]]
    IN  [rollout_idxs |-> np_take(r_idxs, mini_indices),
         timestep_idxs |-> np_take(t_idxs, mini_indices),
         feed_dict |-> to_vecs(sub_obses)]

\* The pairs of a yielded batch, position by position.
PairsOf(b) == [j \in 1..Len(b.rollout_idxs) |-> <<b.rollout_idxs[j], b.timestep_idxs[j]>>]

\* Resume the generator with the locals (o, r, t) and `rem` left to emit: it
\* either yields the next batch or finishes.
Resume(o, r, t, rem) ==
    LET chunks == NextMiniIndices(o, rem, batch_size)
    IN  IF chunks = {}
        THEN /\ bpc' = "done"
             /\ UNCHANGED <<remaining, batch, nYielded, yieldedPairs>>
        ELSE \E mini_indices \in chunks :
             /\ bpc' = "iter"
             /\ batch' = BatchOf(o, r, t, mini_indices)
             /\ remaining' = rem \ Range(mini_indices)
             /\ nYielded' = nYielded + 1
             /\ yieldedPairs' = yieldedPairs (+) SeqToBag(PairsOf(batch'))

\* The rollouts as a flattener that pops the observations it visits would
\* leave them.
RolloutsLeft_Popped(rs) ==
    [i \in 1..Len(rs) |-> [rs[i] EXCEPT !.step_observations = <<>>]]

\* The caller's rollouts after _frames_from_rollouts: lines 137-141 read
\* rollout.step_observations and assign to nothing but the three new lists.
RolloutsLeft(rs) == rs

\* The first next() on the generator: flatten, then run to the first yield.
BatchesFirstNext ==
    /\ bpc = "start"
    /\ LET f == frames_from_rollouts(rollouts)
       IN  /\ obses' = f.all_obs
           /\ rollout_idxs' = f.rollout_indices
           /\ timestep_idxs' = f.timestep_indices
           /\ Resume(f.all_obs, f.rollout_indices, f.timestep_indices,
                     Range(PyRange(Len(f.all_obs))))
    /\ rollouts' = RolloutsLeft(rollouts)
    /\ UNCHANGED <<batch_size, firstCover>>
    /\ UNCHANGED <<mvars, fvars, hvars, lvars>>

\* A later next(): run from the yield to the next one, or to the end.
BatchesNext ==
    /\ bpc = "iter"
    /\ Resume(obses, rollout_idxs, timestep_idxs, remaining)
    /\ UNCHANGED <<rollouts, batch_size, obses, rollout_idxs, timestep_idxs, firstCover>>
    /\ UNCHANGED <<mvars, fvars, hvars, lvars>>

\* The caller drops the generator, exhausted or suspended part-way, and calls
\* batches(rollouts, batch_size) again on the same rollouts.
BatchesAgain ==
    /\ bpc \in {"iter", "done"}
    /\ bpc' = "start"
    /\ obses' = <<>>
    /\ rollout_idxs' = <<>>
    /\ timestep_idxs' = <<>>
    /\ remaining' = {}
    /\ batch' = [rollout_idxs |-> <<>>, timestep_idxs |-> <<>>, feed_dict |-> <<>>]
    /\ nYielded' = 0
    /\ yieldedPairs' = EmptyBag
    /\ firstCover' = (IF bpc = "done" /\ firstCover = None
                      THEN <<BagToSet(yieldedPairs)>> ELSE firstCover)
    /\ UNCHANGED <<rollouts, batch_size>>
    /\ UNCHANGED <<mvars, fvars, hvars, lvars>>

\* ------------------------------------------- FeedforwardAC: step, scaling
\* A tensor of the graph: a head of the network times a constant factor.
Tensor(head, factor) == [head |-> head, factor |-> factor]

\* What a head of the network computes from one observation vector.  The
\* subclass's constructor builds the network; here the actor head gives 0 on
\* some vectors and the critic head on none.
HeadValue(head, vec) ==
    IF head = "actor" THEN vec[2][2] + vec[2][3] ELSE vec[2][3] + 1

\* session.run(tensor, feed_dict): the tensor's value on each fed vector.
session_run(tensor, feed) ==
    [j \in 1..Len(feed) |-> tensor.factor * HeadValue(tensor.head, feed[j])]

\* action_dist.sample(act): one sampled action per row of parameters.
sample(act) == [j \in 1..Len(act) |-> <<"sample", act[j]>>]

\* scale_outputs that scales the critic head only.
scale_outputs_CriticOnly(outs, scale) ==
    [critic_out |-> Tensor(outs.critic_out.head, outs.critic_out.factor * scale),
     actor_out |-> outs.actor_out]

\* scale_outputs(scale): `self.critic_out *= scale; self.actor_out *= scale`
\* binds each attribute to a new tensor, the old one times scale.
scale_outputs(outs, scale) ==
    [critic_out |-> Tensor(outs.critic_out.head, outs.critic_out.factor * scale),
     actor_out |-> Tensor(outs.actor_out.head, outs.actor_out.factor * scale)]

\* The property stateful.
stateful == FALSE

\* start_state(batch_size).
start_state(n) == None

\* step handing back the states it was given.
step_EchoStates(obs, sts, outs) ==
    LET feed == to_vecs(obs)
        act == session_run(outs.actor_out, feed)
        val == session_run(outs.critic_out, feed)
    IN  [op |-> "step", action_params |-> act, actions |-> sample(act),
         states |-> sts, values |-> val]

\* step(observations, states): the dict returned.
step(obs, sts, outs) ==
    LET feed == to_vecs(obs)
        act == session_run(outs.actor_out, feed)
        val == session_run(outs.critic_out, feed)
    IN  [op |-> "step", action_params |-> act, actions |-> sample(act),
         states |-> None, values |-> val]

\* The value of ret when the last call returned nothing.
NoRet == [op |-> "none"]

\* The scale factors a caller passes to scale_outputs.
Scales == {-1, 1, 2}

ScaleOutputs ==
    /\ Len(scales) < MaxScaleCalls
    /\ \E scale \in Scales :
        LET outs == scale_outputs([critic_out |-> critic_out, actor_out |-> actor_out],
                                  scale)
        IN  /\ critic_out' = outs.critic_out
            /\ actor_out' = outs.actor_out
            /\ scales' = Append(scales, scale)
    /\ ret' = NoRet
    /\ UNCHANGED <<observations, states, bvars, fvars, hvars, lvars>>

Stateful ==
    /\ ret' = [op |-> "stateful", value |-> stateful]
    /\ UNCHANGED <<actor_out, critic_out, scales, observations, states>>
    /\ UNCHANGED <<bvars, fvars, hvars, lvars>>

StartState ==
    /\ \E n \in 0..MaxBatch : ret' = [op |-> "start_state", value |-> start_state(n)]
    /\ UNCHANGED <<actor_out, critic_out, scales, observations, states>>
    /\ UNCHANGED <<bvars, fvars, hvars, lvars>>

\* step called on the caller's observations and states.  Lines 53-62 assign
\* to the locals feed_dict, act and val only.
Step ==
    /\ ret' = step(observations, states,
                   [critic_out |-> critic_out, actor_out |-> actor_out])
    /\ UNCHANGED <<actor_out, critic_out, scales, observations, states>>
    /\ UNCHANGED <<bvars, fvars, hvars, lvars>>

\* The lists of observations and the states objects a caller passes to step.
StepObservations ==
    {<<>>, <<ObsToken(0, 0)>>, <<ObsToken(0, 1), ObsToken(1, 0)>>}

StepStates == {None, Some(0)}

\* A freshly constructed model, and a caller holding arguments for step.
ModelInit ==
    /\ actor_out = Tensor("actor", 1)
    /\ critic_out = Tensor("critic", 1)
    /\ scales = <<>>
    /\ observations \in StepObservations
    /\ states \in StepStates
    /\ ret = NoRet

\* The values of the model's variables where no call on the model is made.
ModelIdle ==
    /\ actor_out = Tensor("actor", 1)
    /\ critic_out = Tensor("critic", 1)
    /\ scales = <<>>
    /\ observations = <<>>
    /\ states = None
    /\ ret = NoRet

\* ------------------------------------------------------------------ inputs
\* A Rollout with n step_observations, as rollout number i (0-based) of the call.
MkRollout(i, n, trunc) ==
    [step_observations |-> [t \in 1..n |-> ObsToken(i, t - 1)], trunc_end |-> trunc]

\* The lists of per-rollout (length, trunc_end) the model tries: at most
\* MaxRollouts rollouts, at most MaxFrames observations in all, and a truncated
\* rollout holds at least its trailing observation.
RolloutShapes ==
    UNION {
        {s \in [1..m -> (0..MaxFrames) \X BOOLEAN] :
            /\ \A i \in 1..m : s[i][2] => s[i][1] >= 1
            /\ SumSeq([i \in 1..m |-> s[i][1]]) <= MaxFrames}
        : m \in 0..MaxRollouts}

BatchSizes == {None} \cup {Some(k) : k \in 1..MaxBatch}

\* The value of `batch` while nothing has been yielded.
NoBatch == [rollout_idxs |-> <<>>, timestep_idxs |-> <<>>, feed_dict |-> <<>>]

BatchesInit ==
    /\ \E shape \in RolloutShapes :
         rollouts = [i \in 1..Len(shape) |-> MkRollout(i - 1, shape[i][1], shape[i][2])]
    /\ batch_size \in BatchSizes
    /\ bpc = "start"
    /\ obses = <<>>
    /\ rollout_idxs = <<>>
    /\ timestep_idxs = <<>>
    /\ remaining = {}
    /\ batch = NoBatch
    /\ nYielded = 0
    /\ yieldedPairs = EmptyBag
    /\ firstCover = None


\* ======================================================================
\* The episode logs
\* ======================================================================

\* ------------------------------------------------------------ CSV text
\* A line of the file is the sequence of its comma-separated fields; a field
\* is text: a column name, or the decimal text of a number.
StrField(name) == <<"str", name>>
NumField(x) == <<"num", x>>
IsNum(field) == field[1] = "num"
NumOf(field) == field[2]

\* self._columns = ['r', 'l', 't'].
Columns == <<"r", "l", "t">>

\* ','.join(self._columns) + '\n'.
HeaderLine(columns) == [k \in 1..Len(columns) |-> StrField(columns[k])]

\* to_csv with the columns in another order than the one asked for.
to_csv_Swapped(frame, columns) ==
    [i \in 1..Len(frame) |->
        [k \in 1..Len(columns) |-> NumField(frame[i][columns[Len(columns) + 1 - k]])]]

\* DataFrame.to_csv(columns=columns, header=False, index=False): one line per
\* row of the frame, the row's values in the order of `columns`.
to_csv(frame, columns) ==
    [i \in 1..Len(frame) |->
        [k \in 1..Len(columns) |-> NumField(frame[i][columns[k]])]]

\* pandas.read_csv: the first line names the columns, every later line is a
\* row; a file without any line raises EmptyDataError.
read_csv(lines) ==
    IF lines = <<>>
    THEN [raised |-> TRUE, columns |-> <<>>, rows |-> <<>>]
    ELSE [raised |-> FALSE, columns |-> lines[1], rows |-> Tail(lines)]

\* contents[name]: the values of one column (KeyError when there is none).
HasColumn(contents, name) ==
    \E k \in 1..Len(contents.columns) : contents.columns[k] = StrField(name)

Column(contents, name) ==
    LET k == CHOOSE k \in 1..Len(contents.columns) : contents.columns[k] = StrField(name)
    IN  [i \in 1..Len(contents.rows) |-> NumOf(contents.rows[i][k])]

\* file.write(data) at line offset pos, then flush(): the data replaces what
\* was at that offset and extends the file past its end.
WriteAt(lines, pos, data) ==
    SubSeq(lines, 1, pos) \o data \o SubSeq(lines, pos + Len(data) + 1, Len(lines))

\* The start-time anchor left as it was when the log already has rows.
Anchor_Keep(start_time, now, contents) == start_time

\* `if len(contents) > 0: self._start_time = time.time() - max(contents['t'])`
\* (logger.py 25-26, logs.py 98-99): the anchor after reading the contents,
\* `now` being what time.time() returns there.
Anchor(start_time, now, contents) ==
    IF Len(contents.rows) > 0 THEN now - MaxOf(Column(contents, "t")) ELSE start_time

\* ----------------------------------------------------------- the handle
Closed ==
    [kind |-> "closed", start_time |-> 0, pos |-> 0, append |-> FALSE,
     cur_timesteps |-> 0, cur_reward |-> 0]

\* What the path holds, as the documentation of the logs distinguishes it.
FileState ==
    IF ~fexists THEN "absent"
    ELSE IF flines = <<>> THEN "empty"
    ELSE IF Len(flines) = 1 THEN "header"
    ELSE "rows"

Op(name, raised) == [op |-> name, pre |-> FileState, raised |-> raised]

\* lastOp after an operation that is not an open.
NoOp == [op |-> "other", pre |-> "absent", raised |-> FALSE]

DataRows == Len(flines) - 1

\* The ghost atOpen for a handle opened on `lines`.
Snapshot(lines) ==
    LET contents == read_csv(lines)
    IN  IF Len(contents.rows) > 0 /\ HasColumn(contents, "t")
        THEN [rows |-> Len(contents.rows), maxt |-> MaxOf(Column(contents, "t"))]
        ELSE [rows |-> 0, maxt |-> 0]

NoSnapshot == [rows |-> 0, maxt |-> 0]

\* The ghost ep: no step taken in the current episode, no episode just ended.
NoEp == [steps |-> 0, reward |-> 0, ended |-> <<>>]

\* The ghost lastCall when the last operation was not write_rollouts.
NoCall == <<>>

\* ------------------------------------------------------- EpisodeLogger
\* EpisodeLogger.__init__(log_path).  t0 and t1 are the two readings of
\* time.time() (lines 20 and 26).
EpisodeLoggerInit ==
    /\ h.kind = "closed"
    /\ \E t0 \in clock..MaxClock :
        IF fexists
        THEN LET contents == read_csv(flines)
             IN  IF contents.raised \/ (Len(contents.rows) > 0 /\ ~HasColumn(contents, "t"))
                 THEN /\ clock' = t0
                      /\ lastOp' = Op("EpisodeLogger.__init__", TRUE)
                      /\ UNCHANGED <<h, fexists, flines, atOpen>>
                 ELSE \E t1 \in t0..MaxClock :
                      /\ clock' = (IF Len(contents.rows) > 0 THEN t1 ELSE t0)
                      /\ h' = [Closed EXCEPT
                                 !.kind = "EpisodeLogger",
                                 !.start_time = Anchor(t0, t1, contents),
                                 !.pos = Len(flines),
                                 !.append = TRUE]
                      /\ lastOp' = Op("EpisodeLogger.__init__", FALSE)
                      /\ atOpen' = Snapshot(flines)
                      /\ UNCHANGED <<fexists, flines>>
        ELSE /\ clock' = t0
             /\ fexists' = TRUE
             /\ flines' = WriteAt(<<>>, 0, <<HeaderLine(Columns)>>)
             /\ h' = [Closed EXCEPT
                        !.kind = "EpisodeLogger", !.start_time = t0, !.pos = 1]
             /\ lastOp' = Op("EpisodeLogger.__init__", FALSE)
             /\ atOpen' = NoSnapshot
    /\ ep' = NoEp
    /\ lastCall' = NoCall
    /\ UNCHANGED <<logged, startedAbsent, bvars, mvars, lvars>>

\* write_rollouts without the test of trunc_end: a row for every rollout.
CompletedRows_All(rs, start_time) ==
    [i \in 1..Len(rs) |-> [r |-> rs[i].total_reward,
                           l |-> rs[i].total_steps,
                           t |-> rs[i].end_time - start_time]]

\* The rows write_rollouts collects: one per rollout with trunc_end false.
RECURSIVE CompletedRows(_, _)
CompletedRows(rs, start_time) ==
    IF rs = <<>> THEN <<>>
    ELSE IF Head(rs).trunc_end THEN CompletedRows(Tail(rs), start_time)
    ELSE <<[r |-> Head(rs).total_reward,
            l |-> Head(rs).total_steps,
            t |-> Head(rs).end_time - start_time]>>
         \o CompletedRows(Tail(rs), start_time)

\* frame.sort_values(by='t'): the orders the rows may come out in (quicksort
\* is not stable, so rows of equal t come in either order).
sort_values_t(frame) ==
    {[i \in 1..Len(frame) |-> frame[perm[i]]] :
        perm \in {q \in [1..Len(frame) -> 1..Len(frame)] :
                    /\ \A a, b \in 1..Len(frame) : a # b => q[a] # q[b]
                    /\ \A a, b \in 1..Len(frame) :
                         a < b => frame[q[a]].t <= frame[q[b]].t}}

\* The position a write of the handle lands at: the end of the file in append
\* mode, the handle's own position otherwise.
WritePos(handle, lines) == IF handle.append THEN Len(lines) ELSE handle.pos

Stamp(frame, by) ==
    [i \in 1..Len(frame) |-> [r |-> frame[i].r, l |-> frame[i].l, t |-> frame[i].t, by |-> by]]

\* The rollouts a caller may hand to write_rollouts when the clock reads
\* `now`: a truncated one, or a completed episode that ended at any reading of
\* the clock up to now.
LogRollouts(now) ==
    [trunc_end : {TRUE}, total_reward : {0}, total_steps : {1}, end_time : {now}]
    \cup
    [trunc_end : {FALSE}, total_reward : {1}, total_steps : {MaxEpLen},
     end_time : 0..now]

\* EpisodeLogger.write_rollouts(rollouts), write_frame included, called when
\* the clock reads `now`.
EpisodeLoggerWriteRollouts ==
    /\ h.kind = "EpisodeLogger"
    /\ \E now \in clock..MaxClock :
       \E n \in 0..MaxLogRollouts : \E rs \in [1..n -> LogRollouts(now)] :
        LET data == CompletedRows(rs, h.start_time)
        IN  /\ DataRows + Len(data) <= MaxRows
            /\ clock' = now
            /\ lastCall' = <<[rollouts |-> rs, pre |-> flines]>>
            /\ IF data = <<>>
               THEN UNCHANGED <<flines, h, logged>>
               ELSE \E new_frame \in sort_values_t(data) :
                    LET pos == WritePos(h, flines)
                        text == to_csv(new_frame, Columns)
                    IN  /\ flines' = WriteAt(flines, pos, text)
                        /\ h' = [h EXCEPT !.pos = pos + Len(text)]
                        /\ logged' = logged \o Stamp(new_frame, "EpisodeLogger")
    /\ lastOp' = NoOp
    /\ UNCHANGED <<fexists, startedAbsent, atOpen, ep, bvars, mvars, lvars>>

\* EpisodeLogger.close().
EpisodeLoggerClose ==
    /\ h.kind = "EpisodeLogger"
    /\ h' = Closed
    /\ lastOp' = NoOp
    /\ atOpen' = NoSnapshot
    /\ ep' = NoEp
    /\ lastCall' = NoCall
    /\ UNCHANGED <<fexists, flines, clock, logged, startedAbsent, bvars, mvars, lvars>>

\* ------------------------------------------------------------ LoggedEnv
\* LoggedEnv.__init__(env, log_path, use_locking=False), _initialize_file and
\* _write_header included.  t0 and t1 are the readings of time.time() at
\* lines 33 and 99; os.open(..., O_RDWR | O_CREAT) creates a missing file.
LoggedEnvInit ==
    /\ h.kind = "closed"
    /\ \E t0 \in clock..MaxClock :
        LET lines == IF fexists THEN flines ELSE <<>>
            end == Len(lines)
        IN  /\ fexists' = TRUE
            /\ IF end > 0
               THEN LET contents == read_csv(lines)
                    IN  IF ~HasColumn(contents, "t") /\ Len(contents.rows) > 0
                        THEN /\ clock' = t0
                             /\ flines' = lines
                             /\ lastOp' = Op("LoggedEnv.__init__", TRUE)
                             /\ UNCHANGED <<h, atOpen>>
                        ELSE \E t1 \in t0..MaxClock :
                             /\ clock' = (IF Len(contents.rows) > 0 THEN t1 ELSE t0)
                             /\ flines' = lines
                             /\ h' = [Closed EXCEPT
                                        !.kind = "LoggedEnv",
                                        !.start_time = Anchor(t0, t1, contents),
                                        !.pos = end]
                             /\ lastOp' = Op("LoggedEnv.__init__", FALSE)
                             /\ atOpen' = Snapshot(lines)
               ELSE /\ clock' = t0
                    /\ flines' = WriteAt(lines, end, <<HeaderLine(Columns)>>)
                    /\ h' = [Closed EXCEPT
                               !.kind = "LoggedEnv", !.start_time = t0, !.pos = end + 1]
                    /\ lastOp' = Op("LoggedEnv.__init__", FALSE)
                    /\ atOpen' = NoSnapshot
    /\ ep' = NoEp
    /\ lastCall' = NoCall
    /\ UNCHANGED <<logged, startedAbsent, bvars, mvars, lvars>>

\* The reward env.step returns: one value, not the 1 a step adds to the
\* length, so that r and l differ in every row a LoggedEnv writes.
Rewards == {2}

\* LoggedEnv._step(action), _write_entry included: env.step returns the reward
\* rew and the flag done; `now` is the reading of time.time() at line 76.
LoggedEnvStep ==
    /\ h.kind = "LoggedEnv"
    /\ \E rew \in Rewards, done \in BOOLEAN :
        LET cur_reward == h.cur_reward + rew
            cur_timesteps == h.cur_timesteps + 1
        IN  IF done
            THEN /\ DataRows < MaxRows
                 /\ \E now \in clock..MaxClock :
                     LET info == <<[r |-> cur_reward, l |-> cur_timesteps,
                                    t |-> now - h.start_time]>>
                         data == to_csv(info, Columns)
                         pos == Len(flines)
                     IN  /\ clock' = now
                         /\ flines' = WriteAt(flines, pos, data)
                         /\ h' = [h EXCEPT !.pos = pos + Len(data),
                                           !.cur_timesteps = 0,
                                           !.cur_reward = 0]
                         /\ logged' = logged \o Stamp(info, "LoggedEnv")
                         /\ ep' = [NoEp EXCEPT
                                     !.ended = <<[r |-> ep.reward + rew,
                                                  l |-> ep.steps + 1]>>]
            ELSE /\ cur_timesteps < MaxEpLen
                 /\ h' = [h EXCEPT !.cur_timesteps = cur_timesteps,
                                   !.cur_reward = cur_reward]
                 /\ ep' = [steps |-> ep.steps + 1, reward |-> ep.reward + rew,
                           ended |-> <<>>]
                 /\ UNCHANGED <<flines, clock, logged>>
    /\ lastOp' = NoOp
    /\ UNCHANGED <<fexists, startedAbsent, atOpen, lastCall, bvars, mvars, lvars>>

\* LoggedEnv.reset(): LoggedEnv defines _step and _close only, so the call is
\* the wrapped environment's reset, which begins a new episode; no field of
\* the LoggedEnv is assigned.
LoggedEnvReset ==
    /\ h.kind = "LoggedEnv"
    /\ ep' = NoEp
    /\ lastOp' = NoOp
    /\ UNCHANGED <<h, fvars, logged, startedAbsent, atOpen, lastCall, bvars, mvars, lvars>>

\* LoggedEnv._close().
LoggedEnvClose ==
    /\ h.kind = "LoggedEnv"
    /\ h' = Closed
    /\ lastOp' = NoOp
    /\ atOpen' = NoSnapshot
    /\ ep' = NoEp
    /\ lastCall' = NoCall
    /\ UNCHANGED <<fexists, flines, clock, logged, startedAbsent, bvars, mvars, lvars>>

\* The path is absent or holds a zero-byte file; no handle is open.
LogInit ==
    /\ fexists \in BOOLEAN
    /\ flines = <<>>
    /\ clock = 0
    /\ h = Closed
    /\ lastOp = NoOp
    /\ logged = <<>>
    /\ startedAbsent = ~fexists
    /\ atOpen = NoSnapshot
    /\ ep = NoEp
    /\ lastCall = NoCall

\* --------------------------------------- LoggedEnv processes with locking
Procs == 1..NProcs

\* _set_locked with the test of use_locking inverted.
set_locked_Inverted(use_locking, locked) ==
    IF use_locking THEN "return"
    ELSE IF locked THEN "LOCK_EX" ELSE "LOCK_UN"

\* LoggedEnv._set_locked(locked): what it does, nothing without use_locking.
set_locked(use_locking, locked) ==
    IF ~use_locking THEN "return"
    ELSE IF locked THEN "LOCK_EX" ELSE "LOCK_UN"

\* fcntl.flock(fd, operation) by process p: LOCK_EX waits until no other
\* process holds the lock.
FlockEnabled(operation, p) ==
    operation = "LOCK_EX" => lockHolder \in {0, p}

FlockHolder(operation, p) ==
    IF operation = "LOCK_EX" THEN p
    ELSE IF operation = "LOCK_UN" /\ lockHolder = p THEN 0
    ELSE lockHolder

\* Closing a file whose lock stays with the process that held it.
FileClose_KeepsLock(holder, p) == holder

\* self._file.close() by process p: closing the file's only descriptor drops
\* the flock the process holds on it.
FileClose(holder, p) == IF holder = p THEN 0 ELSE holder

\* The constructor argument of every process of this specification.
use_locking == TRUE

\* What time.time() returns to the processes: they run within one tick of
\* the clock, so the interleavings explored are those of the file and of the
\* lock.
LockNow == clock

\* The reward env.step returns to a process.
LockRewards == {1}

NewEnv ==
    [pc |-> "new", start_time |-> 0, pos |-> 0, cur_timesteps |-> 0,
     cur_reward |-> 0, data |-> <<>>]

Goto(p, pc) == env' = [env EXCEPT ![p].pc = pc]

\* __init__ lines 32-37: read the clock, open the file (creating it).
LockedConstruct(p) ==
    /\ env[p].pc = "new"
    /\ env' = [env EXCEPT ![p].pc = "init_lock", ![p].start_time = LockNow]
    /\ fexists' = TRUE
    /\ UNCHANGED <<flines, clock, lockHolder, episodes, bvars, mvars, hvars>>

\* _initialize_file line 92: self._set_locked(True).
LockedInitLock(p) ==
    /\ env[p].pc = "init_lock"
    /\ FlockEnabled(set_locked(use_locking, TRUE), p)
    /\ lockHolder' = FlockHolder(set_locked(use_locking, TRUE), p)
    /\ Goto(p, "init_seek")
    /\ UNCHANGED <<fvars, episodes, bvars, mvars, hvars>>

\* Lines 93-94: seek to the end and test tell() > 0.
LockedInitSeek(p) ==
    /\ env[p].pc = "init_seek"
    /\ env' = [env EXCEPT
                 ![p].pos = Len(flines),
                 ![p].pc = IF Len(flines) > 0 THEN "init_read" ELSE "init_header"]
    /\ UNCHANGED <<fvars, lockHolder, episodes, bvars, mvars, hvars>>

\* Lines 95-99: read the contents and recompute the anchor.  A raise closes
\* the file (line 41), which drops the process's lock.
LockedInitRead(p) ==
    /\ env[p].pc = "init_read"
    /\ LET contents == read_csv(flines)
       IN  IF contents.raised \/ (Len(contents.rows) > 0 /\ ~HasColumn(contents, "t"))
           THEN /\ Goto(p, "raised")
                /\ lockHolder' = FileClose(lockHolder, p)
           ELSE /\ env' = [env EXCEPT
                             ![p].pc = "init_unlock",
                             ![p].pos = Len(flines),
                             ![p].start_time =
                                 Anchor(env[p].start_time, LockNow, contents)]
                /\ UNCHANGED lockHolder
    /\ UNCHANGED <<fvars, episodes, bvars, mvars, hvars>>

\* Line 101: _write_header at the position the seek left.
LockedInitHeader(p) ==
    /\ env[p].pc = "init_header"
    /\ flines' = WriteAt(flines, env[p].pos, <<HeaderLine(Columns)>>)
    /\ env' = [env EXCEPT ![p].pc = "init_unlock", ![p].pos = env[p].pos + 1]
    /\ UNCHANGED <<fexists, clock, lockHolder, episodes, bvars, mvars, hvars>>

\* Line 102: self._set_locked(False); the constructor then returns.
LockedInitUnlock(p) ==
    /\ env[p].pc = "init_unlock"
    /\ lockHolder' = FlockHolder(set_locked(use_locking, FALSE), p)
    /\ Goto(p, "run")
    /\ UNCHANGED <<fvars, episodes, bvars, mvars, hvars>>

\* _step lines 47-51 and _write_entry lines 73-78: a step that does not end
\* the episode, or one that does and formats the row to write; `dones` are
\* the values of done the wrapped environment may return.
LockedStepOf(p, dones) ==
    /\ env[p].pc = "run"
    /\ \E rew \in LockRewards, done \in dones :
        LET cur_reward == env[p].cur_reward + rew
            cur_timesteps == env[p].cur_timesteps + 1
        IN  IF done
            THEN /\ BagCardinality(episodes) < MaxRows
                 /\ LET info == <<[r |-> cur_reward, l |-> cur_timesteps,
                                   t |-> LockNow - env[p].start_time]>>
                    IN  /\ env' = [env EXCEPT
                                     ![p].pc = "write_lock",
                                     ![p].cur_reward = cur_reward,
                                     ![p].cur_timesteps = cur_timesteps,
                                     ![p].data = to_csv(info, Columns)]
                        /\ episodes' = episodes (+) SetToBag({info[1]})
            ELSE /\ cur_timesteps < MaxEpLen
                 /\ env' = [env EXCEPT ![p].cur_reward = cur_reward,
                                       ![p].cur_timesteps = cur_timesteps]
                 /\ UNCHANGED episodes
    /\ UNCHANGED <<fvars, lockHolder, bvars, mvars, hvars>>

LockedStep(p) == LockedStepOf(p, BOOLEAN)

\* A step of an environment whose episodes last one step: every step ends
\* an episode and writes a row.
LockedStepDone(p) == LockedStepOf(p, {TRUE})

\* _write_entry line 79: self._set_locked(True).
LockedWriteLock(p) ==
    /\ env[p].pc = "write_lock"
    /\ FlockEnabled(set_locked(use_locking, TRUE), p)
    /\ lockHolder' = FlockHolder(set_locked(use_locking, TRUE), p)
    /\ Goto(p, "write_seek")
    /\ UNCHANGED <<fvars, episodes, bvars, mvars, hvars>>

\* Line 81: self._file.seek(0, os.SEEK_END).
LockedWriteSeek(p) ==
    /\ env[p].pc = "write_seek"
    /\ env' = [env EXCEPT ![p].pc = "write_data", ![p].pos = Len(flines)]
    /\ UNCHANGED <<fvars, lockHolder, episodes, bvars, mvars, hvars>>

\* Lines 82-83: write(data) and flush().
LockedWriteData(p) ==
    /\ env[p].pc = "write_data"
    /\ flines' = WriteAt(flines, env[p].pos, env[p].data)
    /\ env' = [env EXCEPT ![p].pc = "write_unlock",
                          ![p].pos = env[p].pos + Len(env[p].data),
                          ![p].data = <<>>]
    /\ UNCHANGED <<fexists, clock, lockHolder, episodes, bvars, mvars, hvars>>

\* Line 85: self._set_locked(False); back in _step, lines 52-53.
LockedWriteUnlock(p) ==
    /\ env[p].pc = "write_unlock"
    /\ lockHolder' = FlockHolder(set_locked(use_locking, FALSE), p)
    /\ env' = [env EXCEPT ![p].pc = "run", ![p].cur_timesteps = 0, ![p].cur_reward = 0]
    /\ UNCHANGED <<fvars, episodes, bvars, mvars, hvars>>

\* _close(): closing the file.
LockedClose(p) ==
    /\ env[p].pc = "run"
    /\ Goto(p, "closed")
    /\ lockHolder' = FileClose(lockHolder, p)
    /\ UNCHANGED <<fvars, episodes, bvars, mvars, hvars>>

\* _initialize_file lines 93-101 raise (a failing seek, read or write): the
\* exception leaves _initialize_file before line 102 and reaches the except
\* clause of __init__.
LockedInitFail(p) ==
    /\ env[p].pc \in {"init_seek", "init_read", "init_header"}
    /\ Goto(p, "init_raise")
    /\ UNCHANGED <<fvars, lockHolder, episodes, bvars, mvars, hvars>>

\* __init__ lines 40-42: `except: self._file.close(); raise`.
LockedInitExcept(p) ==
    /\ env[p].pc = "init_raise"
    /\ lockHolder' = FileClose(lockHolder, p)
    /\ Goto(p, "raised")
    /\ UNCHANGED <<fvars, episodes, bvars, mvars, hvars>>

\* _write_entry lines 81-83 raise (a failing seek, write or flush): control
\* goes to the finally clause.  What a failed write leaves in the file is not
\* modelled: the file is as it was.
LockedWriteFail(p) ==
    /\ env[p].pc \in {"write_seek", "write_data"}
    /\ Goto(p, "write_raise")
    /\ UNCHANGED <<fvars, lockHolder, episodes, bvars, mvars, hvars>>

\* Lines 84-85 on the way out of a raise: `finally: self._set_locked(False)`.
\* The exception leaves _step before lines 52-53, so the counters stay; the
\* caller of step may go on using the environment.
LockedWriteFinally(p) ==
    /\ env[p].pc = "write_raise"
    /\ lockHolder' = FlockHolder(set_locked(use_locking, FALSE), p)
    /\ env' = [env EXCEPT ![p].pc = "run", ![p].data = <<>>]
    /\ UNCHANGED <<fvars, episodes, bvars, mvars, hvars>>

LockIdle ==
    /\ env = [p \in Procs |-> NewEnv]
    /\ lockHolder = 0
    /\ episodes = EmptyBag

\* ---------------------------------------------------------- specifications
\* The values of the variables a specification leaves alone.
BatchesIdle ==
    /\ rollouts = <<>>
    /\ batch_size = None
    /\ bpc = "start"
    /\ obses = <<>>
    /\ rollout_idxs = <<>>
    /\ timestep_idxs = <<>>
    /\ remaining = {}
    /\ batch = NoBatch
    /\ nYielded = 0
    /\ yieldedPairs = EmptyBag
    /\ firstCover = None

\* FeedforwardAC.batches on every bounded input.
Init == BatchesInit /\ ModelIdle /\ LogInit /\ fexists = FALSE /\ LockIdle

Next == BatchesFirstNext \/ BatchesNext

Spec == Init /\ [][Next]_vars

\* One log path used by one handle at a time: EpisodeLogger and LoggedEnv
\* (without locking) opened, written, closed and reopened in any order.
InitLog == BatchesIdle /\ ModelIdle /\ LogInit /\ LockIdle

NextLog ==
    \/ EpisodeLoggerInit
    \/ EpisodeLoggerWriteRollouts
    \/ EpisodeLoggerClose
    \/ LoggedEnvInit
    \/ LoggedEnvStep
    \/ LoggedEnvReset
    \/ LoggedEnvClose

SpecLog == InitLog /\ [][NextLog]_vars

\* Several LoggedEnv processes, each constructed with use_locking=True on one
\* path that is absent or empty at first, interleaved statement by statement.
InitLock == BatchesIdle /\ ModelIdle /\ LogInit /\ LockIdle

NextLock ==
    \E p \in Procs :
        \/ LockedConstruct(p)
        \/ LockedInitLock(p)
        \/ LockedInitSeek(p)
        \/ LockedInitRead(p)
        \/ LockedInitHeader(p)
        \/ LockedInitUnlock(p)
        \/ LockedStep(p)
        \/ LockedWriteLock(p)
        \/ LockedWriteSeek(p)
        \/ LockedWriteData(p)
        \/ LockedWriteUnlock(p)
        \/ LockedClose(p)

SpecLock == InitLock /\ [][NextLock]_vars

\* The LoggedEnv processes with operations that may fail, every step ending
\* an episode (a step that ends none touches neither file nor lock), under fair
\* scheduling: a process inside _initialize_file or _write_entry keeps
\* running (weak fairness), and a process blocked in flock(LOCK_EX) gets the
\* lock if it is free again and again (strong fairness).
LockedProgress(p) ==
    \/ LockedInitSeek(p)
    \/ LockedInitRead(p)
    \/ LockedInitHeader(p)
    \/ LockedInitUnlock(p)
    \/ LockedInitExcept(p)
    \/ LockedWriteSeek(p)
    \/ LockedWriteData(p)
    \/ LockedWriteUnlock(p)
    \/ LockedWriteFinally(p)

LockedAcquire(p) == LockedInitLock(p) \/ LockedWriteLock(p)

NextLockFail ==
    \E p \in Procs :
        \/ LockedConstruct(p)
        \/ LockedInitLock(p)
        \/ LockedInitSeek(p)
        \/ LockedInitRead(p)
        \/ LockedInitHeader(p)
        \/ LockedInitUnlock(p)
        \/ LockedInitFail(p)
        \/ LockedInitExcept(p)
        \/ LockedStepDone(p)
        \/ LockedWriteLock(p)
        \/ LockedWriteSeek(p)
        \/ LockedWriteData(p)
        \/ LockedWriteUnlock(p)
        \/ LockedWriteFail(p)
        \/ LockedWriteFinally(p)
        \/ LockedClose(p)

SpecLockFair ==
    /\ InitLock
    /\ [][NextLockFail]_vars
    /\ \A p \in Procs : WF_vars(LockedProgress(p)) /\ SF_vars(LockedAcquire(p))

\* One FeedforwardAC object: scale_outputs, stateful, start_state and step in
\* any order, and batches() called, consumed, dropped part-way and called
\* again on one list of rollouts (a complete rollout and a truncated one).
ModelRollouts == <<MkRollout(0, 2, FALSE), MkRollout(1, 1, TRUE)>>

InitModel ==
    /\ rollouts = ModelRollouts
    /\ batch_size \in BatchSizes
    /\ bpc = "start"
    /\ obses = <<>>
    /\ rollout_idxs = <<>>
    /\ timestep_idxs = <<>>
    /\ remaining = {}
    /\ batch = NoBatch
    /\ nYielded = 0
    /\ yieldedPairs = EmptyBag
    /\ firstCover = None
    /\ ModelInit
    /\ LogInit
    /\ fexists = FALSE
    /\ LockIdle

NextModel ==
    \/ ScaleOutputs
    \/ Stateful
    \/ StartState
    \/ Step
    \/ BatchesFirstNext
    \/ BatchesNext
    \/ BatchesAgain

SpecModel == InitModel /\ [][NextModel]_vars

\* ------------------------------------------------------------ trimmed frames
\* What the specification calls the trimmed frame set: a rollout's
\* step_observations without the last one when trunc_end is true.
TrimmedLen(rollout) ==
    Len(rollout.step_observations) - (IF rollout.trunc_end THEN 1 ELSE 0)

RECURSIVE TrimmedFrames(_, _)
TrimmedFrames(rs, i) ==
    IF i > Len(rs) THEN <<>>
    ELSE [t \in 1..TrimmedLen(rs[i]) |->
             [obs |-> rs[i].step_observations[t],
              rollout_idx |-> i - 1,
              timestep_idx |-> t - 1]]
         \o TrimmedFrames(rs, i + 1)

TrimmedPairs(rs) ==
    {<<f.rollout_idx, f.timestep_idx>> : f \in Range(TrimmedFrames(rs, 1))}

TrimmedTotal(rs) == Len(TrimmedFrames(rs, 1))

\* The flattener has run: obses, rollout_idxs, timestep_idxs hold its result.
Flattened == bpc # "start"

\* -------------------------------------------------------------------- C1
\* C1: the frames the flattener produced are exactly the step_observations of
\* each rollout minus the last one when trunc_end is true (observations and
\* both index lists).  Violated by the code: no observation is dropped.
C1_FlattenDropsTrailing ==
    Flattened =>
        LET want == TrimmedFrames(rollouts, 1)
        IN  /\ obses = [j \in 1..Len(want) |-> want[j].obs]
            /\ rollout_idxs = [j \in 1..Len(want) |-> want[j].rollout_idx]
            /\ timestep_idxs = [j \in 1..Len(want) |-> want[j].timestep_idx]

\* -------------------------------------------------------------------- C2
\* C2: no batch has more than k elements, no pair is yielded twice, and once
\* the generator is exhausted the pairs yielded are exactly the trimmed frame
\* set.  Violated by the code, which also yields the trailing observations.
C2_BatchesPartitionTrimmed ==
    /\ batch_size # None => Len(batch.rollout_idxs) <= batch_size[1]
    /\ \A p \in BagToSet(yieldedPairs) : CopiesIn(p, yieldedPairs) = 1
    /\ bpc = "done" => BagToSet(yieldedPairs) = TrimmedPairs(rollouts)

\* -------------------------------------------------------------------- C3
\* C3: in every yielded batch the index arrays and the fed observations have
\* one length, and position j of feed_dict holds the vector of
\* rollouts[rollout_idxs[j]].step_observations[timestep_idxs[j]].
C3_BatchAligned ==
    /\ Len(batch.rollout_idxs) = Len(batch.feed_dict)
    /\ Len(batch.timestep_idxs) = Len(batch.feed_dict)
    /\ \A j \in 1..Len(batch.feed_dict) :
        LET r == batch.rollout_idxs[j]
            t == batch.timestep_idxs[j]
        IN  /\ r \in 0..(Len(rollouts) - 1)
            /\ t \in 0..(Len(rollouts[r + 1].step_observations) - 1)
            /\ <<batch.feed_dict[j]>> = to_vecs(<<rollouts[r + 1].step_observations[t + 1]>>)

\* A batch of several frames emitted out of input order, across two rollouts.
C3_Witness ==
    /\ nYielded >= 1
    /\ Len(batch.rollout_idxs) >= 2
    /\ batch.rollout_idxs[1] > batch.rollout_idxs[2]

\* -------------------------------------------------------------------- C4
\* C4: with batch_size None, a rollout set holding at least one observation
\* yields exactly one batch, and that batch has as many elements as the sum of
\* the trimmed lengths.  Violated by the code: the batch also counts the
\* trailing observation of every truncated rollout.
C4_OneBatchOfTrimmedTotal ==
    (/\ bpc = "done"
     /\ batch_size = None
     /\ \E i \in 1..Len(rollouts) : Len(rollouts[i].step_observations) > 0)
    => /\ nYielded = 1
       /\ Len(batch.rollout_idxs) = TrimmedTotal(rollouts)
       /\ Len(batch.timestep_idxs) = TrimmedTotal(rollouts)
       /\ Len(batch.feed_dict) = TrimmedTotal(rollouts)

Regroup(r) ==
    LET mine == {j \in 1..Len(rollout_idxs) : rollout_idxs[j] = r}
    IN  [t \in 1..Cardinality(mine) |->
            obses[CHOOSE j \in mine : timestep_idxs[j] = t - 1]]

HeaderText == <<StrField("r"), StrField("l"), StrField("t")>>

Opens == {"EpisodeLogger.__init__", "LoggedEnv.__init__"}

\* C7: an open (EpisodeLogger or LoggedEnv) of a path that is absent, empty,
\* header-only or holds rows never raises; after it the file exists and its
\* first line is the header; and when the file held rows the anchor is the
\* time of the open minus the largest t of the file.  Violated by the code:
\* EpisodeLogger raises on a zero-byte file.
C7_OpenNeverRaises ==
    lastOp.op \in Opens =>
        /\ ~lastOp.raised
        /\ fexists
        /\ flines # <<>>
        /\ flines[1] = HeaderText
        /\ lastOp.pre = "rows" => h.start_time = clock - atOpen.maxt

\* -------------------------------------------------------------------- C8
\* Process p is between a lock and the matching unlock.
InCritical(p) ==
    env[p].pc \in {"init_seek", "init_read", "init_header", "init_unlock",
                   "write_seek", "write_data", "write_unlock"}

\* Process p has completed an episode whose row is not in the file yet.
HasPending(p) == env[p].pc \in {"write_lock", "write_seek", "write_data"}

\* The record a line of three numbers stands for.
ParseRow(line) == [r |-> NumOf(line[1]), l |-> NumOf(line[2]), t |-> NumOf(line[3])]

IntactRow(line) == Len(line) = 3 /\ \A k \in 1..3 : IsNum(line[k])

RECURSIVE PendingBag(_)
PendingBag(ps) ==
    IF ps = {} THEN EmptyBag
    ELSE LET p == CHOOSE q \in ps : TRUE
         IN  SetToBag({ParseRow(env[p].data[1])}) (+) PendingBag(ps \ {p})

\* C8: with use_locking=True, at most one process is between lock and unlock;
\* the file never holds more than one header line, and holds it as its first
\* line once a process has initialized the file; every other line is an
\* intact row; and the rows of the file together with the rows still waiting
\* for the lock are exactly the episodes completed, each once.
C8_LockedAppendsSerialized ==
    /\ \A p, q \in Procs : (p # q /\ InCritical(p)) => ~InCritical(q)
    /\ Cardinality({i \in 1..Len(flines) : flines[i] = HeaderText}) <= 1
    /\ (\E p \in Procs : env[p].pc \notin {"new", "init_lock", "init_seek", "init_header"})
         => (flines # <<>> /\ flines[1] = HeaderText)
    /\ \A i \in 2..Len(flines) : IntactRow(flines[i])
    /\ (flines # <<>> /\ flines[1] = HeaderText) =>
         SeqToBag([i \in 1..(Len(flines) - 1) |-> ParseRow(flines[i + 1])])
            (+) PendingBag({p \in Procs : HasPending(p)})
         = episodes
    /\ flines = <<>> => episodes = EmptyBag

\* The path did not exist at first; one process has just appended its row and
\* still holds the lock while another waits for the lock with a row of its
\* own.
C8_Witness ==
    /\ startedAbsent
    /\ \E p, q \in Procs :
        /\ p # q
        /\ env[p].pc = "write_unlock"
        /\ lockHolder = p
        /\ env[q].pc = "write_lock"
    /\ Len(flines) >= 2

\* -------------------------------------------------------------------- C9
\* C9: on a path that started absent, whenever the file exists its first
\* line is the header, no later line is the header, and line i + 1 is the
\* i-th record written: three numeric fields, reward, length, timestamp.
C9_LogFormat ==
    (startedAbsent /\ fexists) =>
        /\ Len(flines) >= 1
        /\ flines[1] = HeaderText
        /\ Len(logged) = Len(flines) - 1
        /\ \A i \in 2..Len(flines) :
            /\ flines[i] # HeaderText
            /\ Len(flines[i]) = 3
            /\ \A k \in 1..3 : IsNum(flines[i][k])
            /\ NumOf(flines[i][1]) = logged[i - 1].r
            /\ NumOf(flines[i][2]) = logged[i - 1].l
            /\ NumOf(flines[i][3]) = logged[i - 1].t

\* A log that started absent, written by an EpisodeLogger and, after a close
\* and a reopen, by a LoggedEnv (or the other way round), and closed again.
C9_Witness ==
    /\ startedAbsent
    /\ h.kind = "closed"
    /\ Len(flines) = 3
    /\ Len(logged) = 2
    /\ logged[1].by # logged[2].by

\* ------------------------------------------------------------------- C10
\* C10: every row a LoggedEnv wrote after opening a log that held rows has a
\* t not below the largest t the file held at the open; and in a log written
\* by LoggedEnv sessions only, one after the other, the t column is
\* non-decreasing in file order.
C10_MonotoneAcrossReopen ==
    /\ (h.kind = "LoggedEnv" /\ atOpen.rows > 0) =>
         \A i \in (atOpen.rows + 2)..Len(flines) : NumOf(flines[i][3]) >= atOpen.maxt
    /\ (\A i \in 1..Len(logged) : logged[i].by = "LoggedEnv") =>
         \A i, j \in 2..Len(flines) : i < j => NumOf(flines[i][3]) <= NumOf(flines[j][3])

\* A LoggedEnv reopened a log of LoggedEnv rows whose largest t is positive
\* and has written a row since.
C10_Witness ==
    /\ h.kind = "LoggedEnv"
    /\ atOpen.rows > 0
    /\ atOpen.maxt > 0
    /\ Len(flines) > atOpen.rows + 1
    /\ \A i \in 1..Len(logged) : logged[i].by = "LoggedEnv"

\* ------------------------------------------------------------------- C11
\* C11: the rows an EpisodeLogger has written since it was opened, through
\* any sequence of write_rollouts calls, have non-decreasing t in file order.
\* Violated by the code: write_frame sorts the rows of one call only.
C11_RowsInCompletionOrder ==
    h.kind = "EpisodeLogger" =>
        \A i, j \in (atOpen.rows + 2)..Len(flines) :
            i < j => NumOf(flines[i][3]) <= NumOf(flines[j][3])

\* ------------------------------------------------------------------- C12
\* C12: a step of a LoggedEnv that returns done appends exactly one row, whose
\* r and l are the reward sum and the number of steps of the episode that
\* ended (counted from the reset or the done that began it); a step that does
\* not return done and a reset leave the file as it was.  Violated by the
\* code: reset does not clear the counters of the LoggedEnv.
C12_RowRecordsEndedEpisode ==
    [][(h.kind = "LoggedEnv" /\ h'.kind = "LoggedEnv") =>
         IF ep'.ended # <<>>
         THEN /\ Len(flines') = Len(flines) + 1
              /\ SubSeq(flines', 1, Len(flines)) = flines
              /\ flines'[Len(flines')][1] = NumField(ep'.ended[1].r)
              /\ flines'[Len(flines')][2] = NumField(ep'.ended[1].l)
         ELSE flines' = flines]_vars

\* ------------------------------------------------------------------- C13
\* The line the log is to hold for a completed rollout, given the anchor.
RolloutLine(rollout, start_time) ==
    <<NumField(rollout.total_reward), NumField(rollout.total_steps),
      NumField(rollout.end_time - start_time)>>

IsCompleted(rollout) == ~rollout.trunc_end

\* C13: after write_rollouts(rollouts) the file is what it was before the
\* call followed by exactly one line (total_reward, total_steps, end_time
\* minus the anchor) per rollout with trunc_end false, and nothing for a
\* rollout with trunc_end true; with no completed rollout the file is
\* unchanged.
C13_OnlyCompletedLogged ==
    lastCall # NoCall =>
        LET pre == lastCall[1].pre
            completed == SelectSeq(lastCall[1].rollouts, IsCompleted)
            new == SubSeq(flines, Len(pre) + 1, Len(flines))
        IN  /\ Len(flines) = Len(pre) + Len(completed)
            /\ SubSeq(flines, 1, Len(pre)) = pre
            /\ SeqToBag(new)
                 = SeqToBag([k \in 1..Len(completed) |->
                               RolloutLine(completed[k], h.start_time)])
            /\ completed = <<>> => flines = pre

\* A call given a truncated rollout and a completed one has appended one row.
C13_Witness ==
    /\ lastCall # NoCall
    /\ Len(lastCall[1].rollouts) = 2
    /\ \E i, j \in 1..2 : /\ lastCall[1].rollouts[i].trunc_end
                          /\ ~lastCall[1].rollouts[j].trunc_end
    /\ Len(flines) = Len(lastCall[1].pre) + 1

\* ------------------------------------------------------------------- C14
\* C14: the model is stateless in every reachable state: stateful is false,
\* start_state returns None, and step returns states None whatever the
\* observations and states passed and however often the outputs were scaled.
C14_Stateless ==
    /\ ret.op = "stateful" => ret.value = FALSE
    /\ ret.op = "start_state" => ret.value = None
    /\ ret.op = "step" => ret.states = None

\* step was called with a states object that is not None, on a non-empty
\* list of observations, after two scale_outputs calls.
C14_Witness ==
    /\ ret.op = "step"
    /\ states # None
    /\ observations # <<>>
    /\ Len(scales) = 2

\* ------------------------------------------------------------------- C15
RECURSIVE Product(_)
Product(s) == IF s = <<>> THEN 1 ELSE Head(s) * Product(Tail(s))

\* What step returns on a freshly constructed model for one observation.
FreshOutput(head, obs) == HeadValue(head, to_vecs(<<obs>>)[1])

\* C15: after scale_outputs calls with the factors `scales`, step returns for
\* every observation the product of the factors times what the freshly
\* constructed model returns for it, in action_params and in values; so the
\* outputs that are not 0 are unchanged only when the product is 1.
C15_ScaleMultipliesOutputs ==
    ret.op = "step" =>
        /\ Len(ret.action_params) = Len(observations)
        /\ Len(ret.values) = Len(observations)
        /\ \A j \in 1..Len(observations) :
            /\ ret.action_params[j] = Product(scales) * FreshOutput("actor", observations[j])
            /\ ret.values[j] = Product(scales) * FreshOutput("critic", observations[j])
            /\ (Product(scales) # 1 /\ FreshOutput("actor", observations[j]) # 0)
                 => ret.action_params[j] # FreshOutput("actor", observations[j])
            /\ (Product(scales) # 1 /\ FreshOutput("critic", observations[j]) # 0)
                 => ret.values[j] # FreshOutput("critic", observations[j])

\* step on two observations after scale_outputs(2) and scale_outputs(-1).
C15_Witness ==
    /\ ret.op = "step"
    /\ scales = <<2, -1>>
    /\ Len(observations) = 2
    /\ ret.values[1] = -2 * FreshOutput("critic", observations[1])

\* ------------------------------------------------------------------- C16
\* C16: no call of step changes the caller's observations or states or the
\* model's output tensors; no step of batches, nor dropping the generator and
\* calling batches again, changes a rollout; and an exhausted batches call
\* covers the same pairs as the exhausted call made before it on the rollouts.
C16_CallerOwnedUnchanged ==
    /\ [][(ret'.op = "step" /\ scales' = scales) =>
             /\ observations' = observations
             /\ states' = states
             /\ actor_out' = actor_out
             /\ critic_out' = critic_out]_vars
    /\ [][rollouts' = rollouts]_vars
    /\ []((bpc = "done" /\ firstCover # None) => BagToSet(yieldedPairs) = firstCover[1])

\* A second batches call on the rollouts is exhausted, after a first one that
\* was exhausted too, and step has been called.
C16_Witness ==
    /\ bpc = "done"
    /\ firstCover # None
    /\ firstCover[1] # {}
    /\ nYielded >= 2
    /\ ret.op = "step"

\* ------------------------------------------------------------------- C17
\* Process p waits in flock(LOCK_EX), in the constructor or in _write_entry.
WaitsForLock(p) == env[p].pc \in {"init_lock", "write_lock"}

\* C17: a process that is outside _initialize_file and _write_entry, having
\* returned from them or raised out of them, does not hold the lock; and
\* every process waiting for the lock gets it.
C17_LockNeverKept ==
    /\ [](\A p \in Procs :
            env[p].pc \in {"new", "run", "raised", "closed"} => lockHolder # p)
    /\ \A p \in Procs : WaitsForLock(p) ~> (lockHolder = p)

\* A write of one process has failed while it holds the lock, and another
\* process waits for the lock.
C17_Witness ==
    \E p, q \in Procs :
        /\ env[p].pc = "write_raise"
        /\ lockHolder = p
        /\ WaitsForLock(q)

====
